---- MODULE Spec2Model ----
(***************************************************************************)
(* The game-platform server (Server/backend/server.js) with its two        *)
(* Mongoose models: registration and login, the protected game CRUD        *)
(* routes and the per-user library routes, as concurrent request           *)
(* handlers over one shared database.                                      *)
(*                                                                         *)
(* A handler is split where it awaits the database: every awaited storage  *)
(* call is executed by one atomic step together with the handler code that *)
(* leads up to it.  What follows the last storage call uses the handler's  *)
(* locals only (and the clock, for a token) and is part of that call's     *)
(* step, except for delete's 'Deleted', whose moment matters: it is a step *)
(* of its own, after the cascade has run.                                  *)
(***************************************************************************)
EXTENDS Integers, Sequences, FiniteSets, TLC

VARIABLES
    users,      \* the users collection, in insertion order; _id = position
    games,      \* the games collection: live game id -> document
    gameSeq,    \* number of game ids generated so far (ids are never reused)
    now,        \* the clock, in days
    pc,         \* per request slot: where its handler stands
    req,        \* per request slot: the request being served
    loc,        \* per request slot: the handler's local variables
    res,        \* per request slot: the response sent
    nreq,       \* number of requests received so far
    overlap     \* history: some handler ran while another was in flight

vars == <<users, games, gameSeq, now, pc, req, loc, res, nreq, overlap>>

----------------------------------------------------------------------------
(* Bounds of the model. *)

MaxRequests == 2
MaxTime == 1

Procs == {1, 2}

----------------------------------------------------------------------------
(* Strings are sequences of characters, so that lowercasing is computed. *)

sEmpty == <<>>
sAb    == <<"a", "b">>
sAnn   == <<"a", "n", "n">>
sBob   == <<"b", "o", "b">>
sMailA == <<"a", "@", "x">>
sMailAU == <<"A", "@", "X">>
sMailB == <<"b", "@", "x">>
sMailC == <<"c", "@", "x">>

LowerChar(c) ==
    CASE c = "A" -> "a"
      [] c = "B" -> "b"
      [] c = "X" -> "x"
      [] OTHER -> c

\* String.prototype.toLowerCase, which the schema's `lowercase: true` applies
ToLower(s) == [i \in 1..Len(s) |-> LowerChar(s[i])]

\* the String caster of the email path: document fields and query filters
\* both pass through the schema's setters
CastEmail(s) == ToLower(s)

MinUsernameLen == 3

----------------------------------------------------------------------------
(* bcrypt and jsonwebtoken *)

SaltRounds == 10
TokenTTL == 7
JWT_SECRET == "JWT_SECRET"

\* bcrypt.hash(password, saltRounds)
Hash(pw) == [alg |-> "bcrypt", rounds |-> SaltRounds, of |-> pw]

\* bcrypt.compare(password, passwordHash)
Compare(pw, h) == h.alg = "bcrypt" /\ h.of = pw

NoToken == [key |-> "none", uid |-> 0, username |-> sEmpty, isAdmin |-> FALSE, exp |-> 0]

\* a sign whose expiresIn is read as 7 seconds: expired within the day
SignSevenSeconds(uid, u, t) ==
    [key |-> JWT_SECRET, uid |-> uid, username |-> u.username,
     isAdmin |-> u.isAdmin, exp |-> t]

\* jwt.sign({id, username, isAdmin}, JWT_SECRET, {expiresIn: '7d'}) at time t
Sign(uid, u, t) ==
    [key |-> JWT_SECRET, uid |-> uid, username |-> u.username,
     isAdmin |-> u.isAdmin, exp |-> t + TokenTTL]

\* a verify that ignores the expiry (ignoreExpiration: true)
VerifyIgnoringExpiry(tok, t) == tok.key = JWT_SECRET

\* jwt.verify(token, JWT_SECRET) at time t: TRUE when it returns the payload
Verify(tok, t) == tok.key = JWT_SECRET /\ t < tok.exp

\* a token nobody was issued: signed with another key
ForgedTokens ==
    { [key |-> "other", uid |-> 1, username |-> sAnn, isAdmin |-> TRUE, exp |-> 100] }

\* the Authorization header: absent, one part only, or "<scheme> <token>"
NoHeader == [kind |-> "absent", tok |-> NoToken]
SchemeOnly == [kind |-> "schemeOnly", tok |-> NoToken]
Bearer(t) == [kind |-> "withToken", tok |-> t]


\* authMiddleware: "next" when the handler is called, else the 401 message
AuthMiddleware(hdr, t) ==
    IF hdr.kind = "absent" THEN "No token provided"
    ELSE IF hdr.kind = "schemeOnly" THEN "Malformed token"
    ELSE IF Verify(hdr.tok, t) THEN "next"
    ELSE "Invalid token"

----------------------------------------------------------------------------
(* Documents and responses *)

\* new User({ username, email, passwordHash }) saved at time t: the schema's
\* setters, defaults and timestamps
NewUser(username, email, passwordHash, t) ==
    [username |-> username, email |-> CastEmail(email), passwordHash |-> passwordHash,
     isAdmin |-> FALSE, library |-> <<>>, v |-> 0, createdAt |-> t]

UserIds == 1..Len(users)

\* the tokens a client can hold for user i: the one its registration returned
\* and one of a login just made
ClientTokens ==
    UNION { {Sign(i, users[i], users[i].createdAt), Sign(i, users[i], now)} : i \in UserIds }

Headers == {NoHeader, SchemeOnly} \cup {Bearer(t) : t \in ClientTokens \cup ForgedTokens}

\* prices as request bodies carry them: absent, null, a number, a non-numeric string
PNum(n) == [k |-> "num", n |-> n]
PUndef == [k |-> "undef", n |-> 0]
PNull == [k |-> "null", n |-> 0]
PStr == [k |-> "str", n |-> 0]
PriceInputs == {PUndef, PNull, PStr, PNum(5), PNum(-5)}

\* JavaScript truthiness of a price value
Truthy(p) == p.k = "str" \/ (p.k = "num" /\ p.n # 0)

NoBody == [username |-> sEmpty, email |-> sEmpty, password |-> "", identity |-> sEmpty,
           title |-> "", price |-> PUndef, gameId |-> 0]

NoReq == [op |-> "none", hdr |-> NoHeader, body |-> NoBody]
\* a handler's locals; taken and lib0 are history, read by no handler
NoLoc == [existing |-> FALSE, taken |-> FALSE, uid |-> 0, game |-> 0,
          library |-> <<>>, v |-> 0, lib0 |-> <<>>]
NoRes == [status |-> 0, msg |-> "", tok |-> NoToken, library |-> <<>>]

Reply(status, msg) == [status |-> status, msg |-> msg, tok |-> NoToken, library |-> <<>>]
ReplyToken(tok) == [status |-> 200, msg |-> "ok", tok |-> tok, library |-> <<>>]
ReplyLibrary(msg, lib) == [status |-> 200, msg |-> msg, tok |-> NoToken, library |-> lib]

\* sequence helpers: Array.prototype.includes, filter, and $pull
Includes(s, x) == \E i \in 1..Len(s) : s[i] = x
Without(s, x) == SelectSeq(s, LAMBDA y : y # x)
Count(s, x) == Cardinality({i \in 1..Len(s) : s[i] = x})

Busy(p) == pc[p] \notin {"idle", "done"}
Others(p) == \E q \in Procs \ {p} : Busy(q)

----------------------------------------------------------------------------
(* The database when the server is constructed.  The data outlives the     *)
(* server process: it is empty on a first start, and otherwise holds what  *)
(* earlier requests stored.  SeedUsers/SeedGames is such a state: ann and  *)
(* bob registered TokenTTL days ago, ann added games 1, 2 and 3, bob added *)
(* game 1.                                                                 *)

SeedUsers ==
    << [username |-> sAnn, email |-> sMailA, passwordHash |-> Hash("p"),
        isAdmin |-> FALSE, library |-> <<1, 2, 3>>, v |-> 3, createdAt |-> 0 - TokenTTL],
       [username |-> sBob, email |-> sMailB, passwordHash |-> Hash("q"),
        isAdmin |-> FALSE, library |-> <<1>>, v |-> 1, createdAt |-> 0 - TokenTTL] >>

SeedGames == [g \in 1..3 |-> [title |-> "Chess", price |-> PNum(0)]]

Init ==
    /\ \/ users = <<>> /\ games = <<>> /\ gameSeq = 0
       \/ users = SeedUsers /\ games = SeedGames /\ gameSeq = 3
    /\ now = 0
    /\ pc = [p \in Procs |-> "idle"]
    /\ req = [p \in Procs |-> NoReq]
    /\ loc = [p \in Procs |-> NoLoc]
    /\ res = [p \in Procs |-> NoRes]
    /\ nreq = 0
    /\ overlap = FALSE

----------------------------------------------------------------------------
(* Bookkeeping shared by the handlers' steps *)

\* a response is observed in the state in which it is sent; its slot is
\* cleared (Retire) before anything else happens
Quiet == \A q \in Procs : pc[q] # "done"

\* slot p can take a request
Open(p) ==
    /\ pc[p] = "idle"
    /\ \A q \in Procs : q < p => pc[q] # "idle"     \* slots are interchangeable
    /\ Quiet
    /\ nreq < MaxRequests

\* slot p receives request r
Receive(p, r) ==
    /\ nreq' = nreq + 1
    /\ req' = [req EXCEPT ![p] = r]
    /\ overlap' = (overlap \/ Others(p))

\* slot p's handler resumes at label l
Resume(p, l) ==
    /\ pc[p] = l
    /\ Quiet
    /\ UNCHANGED <<req, nreq>>
    /\ overlap' = (overlap \/ Others(p))

\* slot p's handler sends response r and ends
Respond(p, r) ==
    /\ pc' = [pc EXCEPT ![p] = "done"]
    /\ res' = [res EXCEPT ![p] = r]

\* slot p's handler suspends at label l with locals c
Await(p, l, c) ==
    /\ pc' = [pc EXCEPT ![p] = l]
    /\ loc' = [loc EXCEPT ![p] = c]
    /\ UNCHANGED res

----------------------------------------------------------------------------
(* POST /api/auth/register *)

RegisterBodies ==
    { <<sAnn, sMailC, "p">>,      \* ann, c@x
      <<sMailA, sMailC, "q">>,    \* a username that reads like ann's email
      <<sMailA, sMailAU, "q">>,   \* A@X: ann's email in capitals
      <<sAb, sMailC, "p">>,       \* a username of two characters
      <<sEmpty, sMailC, "p">>,    \* no username
      <<sAnn, sMailAU, "">> }     \* no password

LoginBodies ==
    ({sAnn, sMailA, sMailAU} \X {"p", "q"}) \cup {<<sEmpty, "p">>, <<sAnn, "">>}

\* the same query with the email compared as typed
FindIdentityAsTyped(email, username) ==
    {i \in UserIds : users[i].email = email \/ users[i].username = username}

\* User.find({ $or: [{ email }, { username }] }): the ids of the matching users
FindIdentity(email, username) ==
    {i \in UserIds : users[i].email = CastEmail(email) \/ users[i].username = username}

\* the unique indexes of the username and email paths admit document d
UniqueIndexes(d) ==
    \A i \in UserIds : users[i].username # d.username /\ users[i].email # d.email

\* history: the identity of body b is stored already when the request comes in
Taken(b) ==
    \E i \in UserIds :
        \/ users[i].username = b.username
        \/ ToLower(users[i].email) = ToLower(b.email)

\* the token a handler signs for its user document u, whose id is uid
IssueToken(uid, u) == Sign(uid, u, now)

RegisterStart(p) ==
    /\ Open(p)
    /\ \E rb \in RegisterBodies :
        LET username == rb[1]
            email == rb[2]
            password == rb[3]
            b == [NoBody EXCEPT !.username = username, !.email = email,
                                !.password = password]
            c == [NoLoc EXCEPT !.taken = Taken(b),
                               !.existing = FindIdentity(email, username) # {}]
        IN  /\ Receive(p, [op |-> "register", hdr |-> NoHeader, body |-> b])
            /\ IF username = sEmpty \/ email = sEmpty \/ password = ""
               THEN /\ Respond(p, Reply(400, "Missing fields"))
                    /\ loc' = [loc EXCEPT ![p] = [NoLoc EXCEPT !.taken = Taken(b)]]
               ELSE Await(p, "register_found", c)
            /\ UNCHANGED <<users, games, gameSeq, now>>

RegisterSave(p) ==
    LET b == req[p].body
        d == NewUser(b.username, b.email, Hash(b.password), now)
    IN  /\ Resume(p, "register_found")
        /\ IF loc[p].existing
           THEN /\ Respond(p, Reply(400, "Email or username already in use"))
                /\ UNCHANGED <<users, loc>>
           ELSE IF Len(d.username) < MinUsernameLen \/ ~UniqueIndexes(d)
           THEN \* user.save() throws: ValidationError or E11000 duplicate key
                /\ Respond(p, Reply(500, "Server error"))
                /\ UNCHANGED <<users, loc>>
           ELSE /\ users' = Append(users, d)
                /\ Respond(p, ReplyToken(IssueToken(Len(users) + 1, d)))
                /\ loc' = [loc EXCEPT ![p].uid = Len(users) + 1]
        /\ UNCHANGED <<games, gameSeq, now>>

----------------------------------------------------------------------------
(* POST /api/auth/login *)

Login(p) ==
    /\ Open(p)
    /\ \E lb \in LoginBodies :
        LET identity == lb[1]
            password == lb[2]
            b == [NoBody EXCEPT !.identity = identity, !.password = password]
            found == FindIdentity(identity, identity)
        IN  /\ Receive(p, [op |-> "login", hdr |-> NoHeader, body |-> b])
            /\ IF identity = sEmpty \/ password = ""
               THEN /\ Respond(p, Reply(400, "Missing fields"))
                    /\ UNCHANGED loc
               ELSE IF found = {}
               THEN /\ Respond(p, Reply(400, "Invalid credentials"))
                    /\ UNCHANGED loc
               ELSE \* findOne answers with one of the matching documents
                    \E i \in found :
                        /\ IF Compare(password, users[i].passwordHash)
                           THEN Respond(p, ReplyToken(IssueToken(i, users[i])))
                           ELSE Respond(p, Reply(400, "Invalid credentials"))
                        /\ loc' = [loc EXCEPT ![p] = [NoLoc EXCEPT !.uid = i]]
            /\ UNCHANGED <<users, games, gameSeq, now>>

----------------------------------------------------------------------------
(* The protected routes: authMiddleware runs first, and the handler only   *)
(* when it calls next(); req.user is the token's payload.                  *)

GameIds == 1..gameSeq

PutGame(g, d) == [x \in DOMAIN games \cup {g} |-> IF x = g THEN d ELSE games[x]]
DropGame(g) == [x \in DOMAIN games \ {g} |-> games[x]]

\* protected request r: TRUE when the middleware calls the handler
Admit(r) == AuthMiddleware(r.hdr, now) = "next"

Reject(p, r) ==
    /\ Respond(p, Reply(401, AuthMiddleware(r.hdr, now)))
    /\ UNCHANGED <<users, games, gameSeq, loc>>

\* the requests for route op: every header with every body of bodies, a
\* header the middleware turns away with the one body b0 only
Requests(op, bodies, b0) ==
    LET good == {h \in Headers : AuthMiddleware(h, now) = "next"}
    IN  [op : {op}, hdr : good, body : bodies]
            \cup [op : {op}, hdr : Headers \ good, body : {b0}]

\* history: the library of the request's user when the request comes in
Lib0(r) ==
    IF Admit(r) /\ r.hdr.tok.uid \in UserIds THEN users[r.hdr.tok.uid].library ELSE <<>>

(* POST /api/games *)

\* price: price || 0
PriceOrZero(price) == IF Truthy(price) THEN price ELSE PNum(0)

\* the Number caster of the price path accepts value p
CastsToNumber(p) == p.k \in {"num", "null", "undef"}

CreateBodies ==
    {NoBody} \cup {[NoBody EXCEPT !.title = "Chess", !.price = x] : x \in PriceInputs}

CreateGame(p) ==
    /\ Open(p)
    /\ \E r \in Requests("create", CreateBodies, NoBody) :
        LET title == r.body.title
            d == [title |-> title, price |-> PriceOrZero(r.body.price)]
        IN  /\ Receive(p, r)
            /\ IF ~Admit(r) THEN Reject(p, r)
               ELSE IF title = ""
               THEN /\ Respond(p, Reply(400, "Title required"))
                    /\ UNCHANGED <<users, games, gameSeq, loc>>
               ELSE IF ~CastsToNumber(d.price)
               THEN \* game.save() throws a ValidationError
                    /\ Respond(p, Reply(500, "Server error"))
                    /\ UNCHANGED <<users, games, gameSeq, loc>>
               ELSE /\ games' = PutGame(gameSeq + 1, d)
                    /\ gameSeq' = gameSeq + 1
                    /\ Respond(p, Reply(200, "game"))
                    /\ loc' = [loc EXCEPT ![p] = [NoLoc EXCEPT !.game = gameSeq + 1]]
                    /\ UNCHANGED users
            /\ UNCHANGED now

(* PUT /api/games/:id *)

\* the document after findByIdAndUpdate's $set of the body's price
Updated(d, price) == IF price.k = "undef" THEN d ELSE [d EXCEPT !.price = price]

IdBody(g) == [NoBody EXCEPT !.gameId = g]

UpdateBodies == {[IdBody(g) EXCEPT !.price = x] : g \in GameIds, x \in PriceInputs}
                    \cup {IdBody(1)}

UpdateGame(p) ==
    /\ Open(p)
    /\ \E r \in Requests("update", UpdateBodies, IdBody(1)) :
        LET id == r.body.gameId
            price == r.body.price
        IN  /\ Receive(p, r)
            /\ IF ~Admit(r) THEN Reject(p, r)
               ELSE IF ~CastsToNumber(price)
               THEN \* casting the update throws a CastError
                    /\ Respond(p, Reply(500, "Server error"))
                    /\ UNCHANGED <<users, games, gameSeq, loc>>
               ELSE IF id \notin DOMAIN games
               THEN /\ Respond(p, Reply(404, "Not found"))
                    /\ UNCHANGED <<users, games, gameSeq, loc>>
               ELSE /\ games' = [games EXCEPT ![id] = Updated(@, price)]
                    /\ Respond(p, Reply(200, "game"))
                    /\ UNCHANGED <<users, gameSeq, loc>>
            /\ UNCHANGED now

(* DELETE /api/games/:id *)

DeleteStart(p) ==
    /\ Open(p)
    /\ \E r \in Requests("delete", {IdBody(g) : g \in GameIds \cup {1}}, IdBody(1)) :
        LET id == r.body.gameId
        IN  /\ Receive(p, r)
            /\ IF ~Admit(r) THEN Reject(p, r)
               ELSE IF id \notin DOMAIN games
               THEN /\ Respond(p, Reply(404, "Not found"))
                    /\ UNCHANGED <<users, games, gameSeq, loc>>
               ELSE /\ games' = DropGame(id)
                    /\ Await(p, "delete_deleted", [NoLoc EXCEPT !.game = id])
                    /\ UNCHANGED <<users, gameSeq>>
            /\ UNCHANGED now

\* User.updateMany({ library: g }, { $pull: { library: g } })
PullFromAll(g) == [i \in UserIds |-> [users[i] EXCEPT !.library = Without(@, g)]]

DeleteCascade(p) ==
    /\ Resume(p, "delete_deleted")
    /\ users' = PullFromAll(loc[p].game)
    /\ Await(p, "delete_cascaded", loc[p])
    /\ UNCHANGED <<games, gameSeq, now>>

DeleteRespond(p) ==
    /\ Resume(p, "delete_cascaded")
    /\ Respond(p, Reply(200, "Deleted"))
    /\ UNCHANGED <<users, games, gameSeq, now, loc>>

(* GET /api/library *)

\* populate('library'): the ids whose game documents exist
Populate(lib) == SelectSeq(lib, LAMBDA g : g \in DOMAIN games)

LibraryList(p) ==
    /\ Open(p)
    /\ \E r \in Requests("list", {NoBody}, NoBody) :
        LET uid == r.hdr.tok.uid
        IN  /\ Receive(p, r)
            /\ IF ~Admit(r) THEN Reject(p, r)
               ELSE /\ IF uid \notin UserIds
                       THEN Respond(p, Reply(404, "User not found"))
                       ELSE Respond(p, ReplyLibrary("library", Populate(users[uid].library)))
                    /\ UNCHANGED <<users, games, gameSeq, loc>>
            /\ UNCHANGED now

(* POST /api/library/add *)

GameIdInputs == 0..gameSeq       \* 0: the body has no gameId

AddStart(p) ==
    /\ Open(p)
    /\ \E r \in Requests("add", {IdBody(g) : g \in GameIdInputs}, NoBody) :
        LET gameId == r.body.gameId
        IN  /\ Receive(p, r)
            /\ IF ~Admit(r) THEN Reject(p, r)
               ELSE /\ IF gameId = 0
                       THEN /\ Respond(p, Reply(400, "gameId required"))
                            /\ loc' = [loc EXCEPT ![p] = [NoLoc EXCEPT !.lib0 = Lib0(r)]]
                       ELSE IF gameId \notin DOMAIN games
                       THEN /\ Respond(p, Reply(404, "Game not found"))
                            /\ loc' = [loc EXCEPT ![p] = [NoLoc EXCEPT !.lib0 = Lib0(r)]]
                       ELSE Await(p, "add_game", [NoLoc EXCEPT !.game = gameId, !.lib0 = Lib0(r)])
                    /\ UNCHANGED <<users, games, gameSeq>>
            /\ UNCHANGED now

AddLoadUser(p) ==
    LET uid == req[p].hdr.tok.uid
    IN  /\ Resume(p, "add_game")
        /\ IF uid \notin UserIds
           THEN /\ Respond(p, Reply(404, "User not found"))
                /\ UNCHANGED loc
           ELSE Await(p, "add_user", [loc[p] EXCEPT !.uid = uid,
                                                    !.library = users[uid].library,
                                                    !.v = users[uid].v])
        /\ UNCHANGED <<users, games, gameSeq, now>>

\* includes that compares the ObjectId objects by reference
AlreadyInLibraryByReference(lib, g) == FALSE

\* user.library.includes(game._id)
AlreadyInLibrary(lib, g) == Includes(lib, g)

\* unshift in place of push: the id goes to the front
SavePushFront(u, g) == [u EXCEPT !.library = <<g>> \o @, !.v = @ + 1]

\* user.library.push(g); user.save(): the save sends the push, $push, and
\* increments the version key
SavePush(u, g) == [u EXCEPT !.library = Append(@, g), !.v = @ + 1]

AddSave(p) ==
    LET uid == loc[p].uid
        g == loc[p].game
    IN  /\ Resume(p, "add_user")
        /\ IF AlreadyInLibrary(loc[p].library, g)
           THEN /\ Respond(p, Reply(400, "Already in library"))
                /\ UNCHANGED users
           ELSE /\ users' = [users EXCEPT ![uid] = SavePush(@, g)]
                /\ Respond(p, ReplyLibrary("Added", Append(loc[p].library, g)))
        /\ UNCHANGED <<games, gameSeq, now, loc>>

(* POST /api/library/remove *)

RemoveStart(p) ==
    /\ Open(p)
    /\ \E r \in Requests("remove", {IdBody(g) : g \in GameIdInputs}, NoBody) :
        LET gameId == r.body.gameId
            uid == r.hdr.tok.uid
        IN  /\ Receive(p, r)
            /\ IF ~Admit(r) THEN Reject(p, r)
               ELSE /\ IF gameId = 0
                       THEN /\ Respond(p, Reply(400, "gameId required"))
                            /\ loc' = [loc EXCEPT ![p] = [NoLoc EXCEPT !.lib0 = Lib0(r)]]
                       ELSE IF uid \notin UserIds
                       THEN /\ Respond(p, Reply(404, "User not found"))
                            /\ UNCHANGED loc
                       ELSE Await(p, "remove_user", [NoLoc EXCEPT !.uid = uid,
                                                                 !.library = users[uid].library,
                                                                 !.v = users[uid].v,
                                                                 !.lib0 = Lib0(r)])
                    /\ UNCHANGED <<users, games, gameSeq>>
            /\ UNCHANGED now

\* a filter that compares the ObjectIds themselves with the gameId string:
\* nothing is equal, everything is kept
FilteredByObject(lib, gameId) == lib

\* user.library.filter(g => g.toString() !== gameId)
Filtered(lib, gameId) == Without(lib, gameId)

\* user.library = lib; user.save(): the save sets the whole array where the
\* stored version key is still the one read, and increments it
SaveSet(u, lib) == [u EXCEPT !.library = lib, !.v = @ + 1]

RemoveSave(p) ==
    LET uid == loc[p].uid
        lib == Filtered(loc[p].library, req[p].body.gameId)
    IN  /\ Resume(p, "remove_user")
        /\ IF lib = loc[p].library
           THEN \* nothing was modified: save() writes nothing
                /\ Respond(p, ReplyLibrary("Removed", lib))
                /\ UNCHANGED users
           ELSE IF users[uid].v # loc[p].v
           THEN \* VersionError: no document matches the id and version
                /\ Respond(p, Reply(500, "Server error"))
                /\ UNCHANGED users
           ELSE /\ users' = [users EXCEPT ![uid] = SaveSet(@, lib)]
                /\ Respond(p, ReplyLibrary("Removed", lib))
        /\ UNCHANGED <<games, gameSeq, now, loc>>

----------------------------------------------------------------------------
(* Time passes *)

Tick ==
    /\ Quiet
    /\ now < MaxTime
    /\ now' = now + 1
    /\ UNCHANGED <<users, games, gameSeq, pc, req, loc, res, nreq, overlap>>

(* The response has gone out: the slot is free for the next request *)
Retire(p) ==
    /\ pc[p] = "done"
    /\ pc' = [pc EXCEPT ![p] = "idle"]
    /\ req' = [req EXCEPT ![p] = NoReq]
    /\ loc' = [loc EXCEPT ![p] = NoLoc]
    /\ res' = [res EXCEPT ![p] = NoRes]
    /\ UNCHANGED <<users, games, gameSeq, now, nreq, overlap>>

Next ==
    \/ \E p \in Procs :
          \/ RegisterStart(p) \/ RegisterSave(p)
          \/ Login(p)
          \/ CreateGame(p) \/ UpdateGame(p)
          \/ DeleteStart(p) \/ DeleteCascade(p) \/ DeleteRespond(p)
          \/ LibraryList(p)
          \/ AddStart(p) \/ AddLoadUser(p) \/ AddSave(p)
          \/ RemoveStart(p) \/ RemoveSave(p)
          \/ Retire(p)
    \/ Tick

Spec == Init /\ [][Next]_vars

----------------------------------------------------------------------------
(* The claims *)

Done(p) == pc[p] = "done"
Protected == {"create", "update", "delete", "list", "add", "remove"}
Deleted == GameIds \ DOMAIN games
Uid(p) == req[p].hdr.tok.uid
Gid(p) == req[p].body.gameId

\* the sequence s with every g left out, in s's order
RECURSIVE Leaving(_, _)
Leaving(s, g) ==
    IF s = <<>> THEN <<>>
    ELSE IF Head(s) = g THEN Leaving(Tail(s), g)
    ELSE <<Head(s)>> \o Leaving(Tail(s), g)

(* C1: no user's library holds the id of a deleted game.  Stated with the  *)
(* allowance the cascade needs: an id may still be there while the delete  *)
(* handler that removed the game has not run its cascade yet.              *)
C1_NoDeletedGameInLibrary ==
    \A i \in UserIds : \A g \in Deleted :
        Includes(users[i].library, g) =>
            \E p \in Procs : pc[p] = "delete_deleted" /\ loc[p].game = g

(* C2, as claimed: usernames are unique, emails are unique after           *)
(* lowercasing, and every register request whose username or email is      *)
(* stored already is answered 400 'Email or username already in use'.      *)
UniqueIdentities ==
    \A i, j \in UserIds :
        i # j => /\ users[i].username # users[j].username
                 /\ ToLower(users[i].email) # ToLower(users[j].email)

DuplicateIdentity(p) ==
    /\ res[p].status = 400
    /\ res[p].msg = "Email or username already in use"
    /\ loc[p].uid = 0

C2_TakenIdentityAlways400 ==
    /\ UniqueIdentities
    /\ \A p \in Procs :
          (Done(p) /\ req[p].op = "register" /\ loc[p].taken) => DuplicateIdentity(p)

(* C2, amended: usernames are unique, emails are unique after lowercasing; *)
(* a register request that carries all three fields and whose username or  *)
(* lowercased email is stored when it arrives is answered 400 'Email or    *)
(* username already in use'; no register request that fails stores a user. *)
AllFields(b) == b.username # sEmpty /\ b.email # sEmpty /\ b.password # ""

C2_UniqueIdentities ==
    /\ UniqueIdentities
    /\ \A p \in Procs :
          (Done(p) /\ req[p].op = "register") =>
              /\ (loc[p].taken /\ AllFields(req[p].body)) => DuplicateIdentity(p)
              /\ res[p].status # 200 => loc[p].uid = 0

C2_Witness ==
    \E p \in Procs :
        /\ Done(p) /\ req[p].op = "register" /\ DuplicateIdentity(p)
        /\ req[p].body.email = sMailAU
        /\ \A i \in UserIds : users[i].username # req[p].body.username

(* C3: when delete answers 'Deleted' for game g, no user's library holds g *)
C3_NoReferenceWhenDeleted ==
    \A p \in Procs :
        (Done(p) /\ req[p].op = "delete" /\ res[p].msg = "Deleted") =>
            \A i \in UserIds : ~Includes(users[i].library, Gid(p))

(* C4: requests running one after another: an add of an existing game that *)
(* is in the user's library when the request arrives is answered 400       *)
(* 'Already in library' and leaves the library as it was; one that is not  *)
(* there is answered 'Added' and appends the id once.                      *)
C4_StrictAdd ==
    \A p \in Procs :
        (/\ Done(p) /\ ~overlap /\ req[p].op = "add"
         /\ res[p].status # 401 /\ Gid(p) \in DOMAIN games) =>
            IF Includes(loc[p].lib0, Gid(p))
            THEN /\ res[p].status = 400 /\ res[p].msg = "Already in library"
                 /\ users[Uid(p)].library = loc[p].lib0
            ELSE /\ res[p].status = 200 /\ res[p].msg = "Added"
                 /\ users[Uid(p)].library = Append(loc[p].lib0, Gid(p))
                 /\ res[p].library = users[Uid(p)].library

\* bob, whose library was <<1>>, has added game 2 and adds it again
C4_Witness ==
    \E p \in Procs :
        /\ Done(p) /\ ~overlap /\ req[p].op = "add" /\ Gid(p) = 2
        /\ res[p].msg = "Already in library"
        /\ Len(users) >= 2 /\ Uid(p) = 2 /\ users[2].library = <<1, 2>>

(* C5: requests running one after another: a remove with a game id always  *)
(* succeeds, and stores and returns the library as it was when the request *)
(* arrived with every occurrence of the id left out, the other ids in      *)
(* their order (so unchanged when the id was not there); and, in every     *)
(* interleaving, no step of a remove handler changes a game or another     *)
(* user's document.                                                        *)
C5_RemoveResult ==
    \A p \in Procs :
        (/\ Done(p) /\ ~overlap /\ req[p].op = "remove"
         /\ res[p].status # 401 /\ Gid(p) # 0) =>
            /\ res[p].status = 200 /\ res[p].msg = "Removed"
            /\ users[Uid(p)].library = Leaving(loc[p].lib0, Gid(p))
            /\ res[p].library = users[Uid(p)].library
            /\ ~Includes(loc[p].lib0, Gid(p)) => users[Uid(p)].library = loc[p].lib0

C5_RemoveFrame ==
    \A p \in Procs :
        (pc'[p] # pc[p] /\ req'[p].op = "remove") =>
            /\ games' = games
            /\ gameSeq' = gameSeq
            /\ Len(users') = Len(users)
            /\ \A i \in UserIds : i # req'[p].hdr.tok.uid => users'[i] = users[i]

C5_LenientRemove == []C5_RemoveResult /\ [][C5_RemoveFrame]_vars

\* ann removes game 2 from <<1, 2, 3>>
C5_Witness ==
    \E p \in Procs :
        /\ Done(p) /\ ~overlap /\ req[p].op = "remove" /\ Gid(p) = 2
        /\ loc[p].lib0 = <<1, 2, 3>>
        /\ users[Uid(p)].library = <<1, 3>>

(* C6: a request to a protected route with no Authorization header, with a *)
(* header without a token part, or with a token that is not signed with    *)
(* the server's secret or has expired, is answered 401 with 'No token      *)
(* provided', 'Malformed token', 'Invalid token' respectively, in the step *)
(* that receives it, and that step changes no user and no game.            *)
Expected401(hdr, t) ==
    IF hdr.kind = "absent" THEN "No token provided"
    ELSE IF hdr.kind = "schemeOnly" THEN "Malformed token"
    ELSE IF hdr.tok.key # JWT_SECRET \/ hdr.tok.exp <= t THEN "Invalid token"
    ELSE "none"

C6_Gate ==
    \A p \in Procs :
        (/\ pc[p] = "idle" /\ pc'[p] # "idle"
         /\ req'[p].op \in Protected
         /\ Expected401(req'[p].hdr, now) # "none") =>
            /\ pc'[p] = "done"
            /\ res'[p].status = 401
            /\ res'[p].msg = Expected401(req'[p].hdr, now)
            /\ users' = users /\ games' = games /\ gameSeq' = gameSeq

C6_AuthenticationGate == [][C6_Gate]_vars

\* a token the server signed, sent after it expired
C6_Witness ==
    \E p \in Procs :
        /\ Done(p) /\ req[p].op \in Protected
        /\ req[p].hdr.kind = "withToken" /\ req[p].hdr.tok.key = JWT_SECRET
        /\ res[p].status = 401 /\ res[p].msg = "Invalid token"

(* C7: a login that names a registered user by username, or by email in    *)
(* any letter case, succeeds with a token when the password is that        *)
(* user's, and fails when it is the password of no user so named.          *)
Named(id) == {i \in UserIds : users[i].username = id \/ users[i].email = ToLower(id)}

C7_LoginDecision ==
    \A p \in Procs :
        (/\ Done(p) /\ req[p].op = "login"
         /\ req[p].body.identity # sEmpty /\ req[p].body.password # "") =>
            LET right == {i \in Named(req[p].body.identity) :
                             users[i].passwordHash = Hash(req[p].body.password)}
            IN  /\ right # {} => res[p].status = 200 /\ res[p].tok # NoToken
                /\ right = {} => res[p].status = 400 /\ res[p].tok = NoToken

(* C8: the token a successful register or login returns verifies with the  *)
(* server's secret on each of the TokenTTL days from its issuance and not  *)
(* after, and carries the id, username and isAdmin of the stored user; a   *)
(* registered user is stored with the username of the request and          *)
(* isAdmin = FALSE.                                                        *)
C8_TokenFidelity ==
    \A p \in Procs :
        (Done(p) /\ req[p].op \in {"register", "login"} /\ res[p].status = 200) =>
            LET tok == res[p].tok
                uid == loc[p].uid
            IN  /\ uid \in UserIds
                /\ \A t \in now..(now + TokenTTL - 1) : Verify(tok, t)
                /\ ~Verify(tok, now + TokenTTL)
                /\ tok.uid = uid
                /\ tok.username = users[uid].username
                /\ tok.isAdmin = users[uid].isAdmin
                /\ req[p].op = "register" =>
                      /\ uid = Len(users)
                      /\ users[uid].username = req[p].body.username
                      /\ users[uid].isAdmin = FALSE

C8_Witness ==
    \E p \in Procs :
        /\ Done(p) /\ req[p].op = "register" /\ res[p].status = 200
        /\ now > 0 /\ Verify(res[p].tok, now)

(* C9: as long as requests have run one after another, no library holds an *)
(* id twice; interleaved adds can make one hold an id twice (the witness). *)
C9_NoDuplicateWithoutInterleaving ==
    ~overlap => \A i \in UserIds : \A g \in GameIds : Count(users[i].library, g) <= 1

\* an add that read the library without the id has been answered 'Added',
\* and the library holds the id twice
C9_Witness ==
    \E p \in Procs :
        /\ Done(p) /\ req[p].op = "add" /\ res[p].msg = "Added"
        /\ ~Includes(loc[p].library, Gid(p))
        /\ Count(users[Uid(p)].library, Gid(p)) = 2

(* C10: every stored game's price is a number that is not negative, and   *)
(* it is 0 for a game created by a request without a price.                *)
C10_PriceNonNegative ==
    /\ \A g \in DOMAIN games : games[g].price.k = "num" /\ games[g].price.n >= 0
    /\ \A p \in Procs :
          (/\ Done(p) /\ req[p].op = "create" /\ res[p].status = 200
           /\ req[p].body.price = PUndef) => games[loc[p].game].price = PNum(0)

====
